---- MODULE Spec2Model ----
(***************************************************************************)
(* The condition poller (waitForCondition) and the job-completion wait     *)
(* (API.waitUntilJobCompletes) of the voxel51 JavaScript client library.   *)
(*                                                                         *)
(* Two generations of the library are in the repository:                   *)
(*   "users"  : lib/users/utils.js with the users/api module, whose        *)
(*              checkCondition wraps the awaited call in try/catch;        *)
(*   "legacy" : lib/utils.js with the older api module, whose              *)
(*              checkCondition has no try/catch.                           *)
(*                                                                         *)
(* Time is an integer number of milliseconds.  An evaluation of the        *)
(* condition is an asynchronous call that completes some time after it is  *)
(* invoked; a timer set with setTimeout fires no sooner than its delay.    *)
(* Time advances from one pending event (a completion, a timer) to the     *)
(* next.                                                                   *)
(***************************************************************************)
EXTENDS Integers, Sequences, FiniteSets, TLC

\* ---------------------------------------------------------------- bounds

\* an evaluation of the condition takes 0..MaxDur ms
MaxDur == 1
\* a timer fires 0..MaxLate ms after its delay has elapsed
MaxLate == 1
\* waitForCondition is called with sleepTime in 1..MaxSleepTime ms
MaxSleepTime == 2
\* ... and with maxWaitTime in 0..MaxWaitTime ms
MaxWaitTime == 3
\* the delays of one session (slow evaluations, late timers) add up to at
\* most MaxJitter ms
MaxJitter == 2
\* the first MaxLog completions of a session are kept in its log
MaxLog == 4

\* ------------------------------------------------------------- constants

\* waitUntilJobCompletes: seconds to milliseconds
MsPerSecond == 1000
\* waitUntilJobCompletes is called with (sleepTime, maxWaitTime) in seconds
JobWaitConfigs == {<<1, 0>>, <<1, 2>>, <<1, 10>>}
\* ... and when two job waits run side by side
ConcurrentWaitConfigs == {<<1, 0>>, <<1, 1>>}

Variants == {"users", "legacy"}
Sessions == {1, 2}
JobIds == {"j1", "j2"}

\* lib/users/jobs.js JobState
JobState == {"READY", "QUEUED", "SCHEDULED", "RUNNING", "COMPLETE", "FAILED"}

\* the order in which the platform moves a job through its states
StateRank(st) ==
  CASE st = "READY"     -> 1
    [] st = "QUEUED"    -> 2
    [] st = "SCHEDULED" -> 3
    [] st = "RUNNING"   -> 4
    [] st = "COMPLETE"  -> 5
    [] st = "FAILED"    -> 5

\* ------------------------------------------------- values and completions

NoError == [name |-> "none", message |-> "none"]
APITimeoutError == [name |-> "APITimeoutError", message |-> "Maximum wait time exceeded"]
JobExecutionError(jobId) == [name |-> "JobExecutionError", message |-> jobId]
APIError == [name |-> "APIError", message |-> "request failed"]
ConditionErrors == {[name |-> "Error", message |-> "e1"],
                    [name |-> "TypeError", message |-> "e2"]}

\* the completion of an asynchronous call: a value, or an error thrown
Return(v) == [type |-> "return", value |-> v, error |-> NoError]
Throw(e) == [type |-> "throw", value |-> "none", error |-> e]

\* JavaScript values, written as their literals
FalsyValues == {"false", "0"}
TruthyValues == {"true", "v1"}

\* if (result === true)
TruthyStrict(v) == v = "true"

\* if (result)
Truthy(v) == v \notin FalsyValues

\* what a caller-supplied condition may do on one call
ConditionResults ==
  {Return(v) : v \in FalsyValues \cup TruthyValues} \cup {Throw(e) : e \in ConditionErrors}

\* ------------------------------------------------------------------ state

VARIABLES
  now,       \* (new Date()).getTime()
  variant,   \* the generation of the library in use
  jobState,  \* the platform's state of each job
  sess,      \* the wait sessions: one call of waitForCondition each
  request,   \* one call of a request helper and the promise it returned
  app,       \* an ApplicationAPI and the calls made on it
  auth,      \* one call of loadToken, its surroundings and its result
  ttl,       \* one call of updateJobTTL or batchUpdateJobsTTL
  jobRequest, \* one call of JobRequest.fromObject
  fetched,   \* the status fetches made for each wait session of an ApplicationAPI
  apiCall,   \* one call of isJobComplete or waitUntilJobCompletes and what it did
  query,     \* a BaseQuery and the builder calls made on it
  path       \* one construction of a RemoteDataPath and its toObject

\* the state of the wait sessions
poller == <<now, variant, jobState, sess>>

later == <<fetched, apiCall, query, path>>

besidesFetched == <<apiCall, query, path>>
besidesApiCall == <<fetched, query, path>>
besidesQuery == <<fetched, apiCall, path>>
besidesPath == <<fetched, apiCall, query>>

\* the state outside the wait sessions
others == <<request, app, auth, ttl, jobRequest, later>>

vars == <<now, variant, jobState, sess, others>>

\* no completion of the condition yet
NoCompletion == [type |-> "none", value |-> "none", error |-> NoError]

Pending == [status |-> "pending", value |-> "none", error |-> NoError]
Resolved(v) == [status |-> "resolved", value |-> v, error |-> NoError]
Rejected(e) == [status |-> "rejected", value |-> "none", error |-> e]

\* a session before waitForCondition is called
Idle ==
  [called |-> FALSE, kind |-> "none", conditionArgs |-> "none",
   sleepTime |-> 0, maxWaitTime |-> 0, startTime |-> 0, endTime |-> 0,
   inflight |-> {}, timers |-> {}, evals |-> 0, sleeps |-> 0,
   log |-> <<>>, last |-> NoCompletion, completed |-> 0,
   outcome |-> Pending, settledAt |-> 0, unhandled |-> 0, jitter |-> 0]

\* the generations of the requests module
RequestLibs == {"users", "lib", "root"}
Methods == {"get", "post", "put", "delete"}

\* no response yet
NoAnswer == [err |-> NoError, statusCode |-> 0, body |-> "none"]

\* before a request helper is called
IdleRequest ==
  [lib |-> "none", method |-> "none", phase |-> "idle", answer |-> NoAnswer,
   promise |-> Pending, calls |-> 0, settles |-> 0, unhandled |-> FALSE]

\* the wait sessions before any call
InitPoller ==
  /\ now = 0
  /\ variant \in Variants
  /\ jobState = [j \in JobIds |-> "READY"]
  /\ sess = [s \in Sessions |-> Idle]

\* before new ApplicationAPI(token)
NoToken == [class |-> "none", privateKey |-> "none"]
NoHeader == [scheme |-> "none", key |-> "none", user |-> "none"]

\* before new ApplicationAPI(token)
NoApplicationAPI ==
  [constructed |-> FALSE, token |-> NoToken, activeUser |-> "none",
   header_ |-> NoHeader, calls |-> <<>>]

\* before loadToken is called
NoLoad ==
  [lib |-> "none", tokenPath |-> "none", privateKey |-> "none", tokenEnv |-> "none",
   home |-> "none", phase |-> "idle", result |-> NoCompletion, looked |-> {}]

\* an argument left out
Undefined == [given |-> FALSE, n |-> 0, kind |-> "undefined", text |-> "undefined"]
\* a number given for an argument
Number(n) == [given |-> TRUE, n |-> n, kind |-> "number", text |-> ToString(n)]

\* a job metadata object left out
NoJob == [id |-> "undefined", state |-> "undefined", failure_type |-> "undefined"]
\* what waitUntilJobCompletes hands to waitForCondition
NoDelegation == [conditionArgs |-> "none", sleepTime |-> 0, maxWaitTime |-> 0]

\* before a method of the API is called
NoApiCall ==
  [op |-> "none", jobId |-> "undefined", job |-> NoJob, fetchedJob |-> NoCompletion,
   sleepTime |-> Undefined, maxWaitTime |-> Undefined,
   result |-> NoCompletion, delegated |-> NoDelegation]

\* before updateJobTTL or batchUpdateJobsTTL is called
NoTTLCall ==
  [op |-> "none", ids |-> {}, days |-> Undefined, expirationDate |-> Undefined,
   phase |-> "idle", result |-> NoCompletion, sent |-> <<>>]

\* no request made
NoFetch == [uri |-> "none", headers |-> NoHeader, after |-> 0]
NoFetches == [count |-> 0, first |-> NoFetch, last |-> NoFetch]

\* before JobRequest.fromObject is called
NoJobRequest ==
  [lib |-> "none", parameters |-> <<>>, phase |-> "idle", remote |-> <<>>,
   result |-> NoCompletion]

\* a property that is null, and one that holds v
Null(v) == [null |-> TRUE, v |-> v]
NotNull(v) == [null |-> FALSE, v |-> v]

\* before a builder is called
NoBuilderCall == [op |-> "none", fields |-> <<>>, text |-> <<>>, descending |-> FALSE]

\* before a query is constructed
NoQuery ==
  [constructed |-> FALSE,
   this |-> [supportedFields_ |-> <<>>, fields |-> <<>>, search |-> <<>>,
             sort |-> Null(<<>>), offset |-> Null(0), limit |-> Null(0)],
   calls |-> 0, last |-> NoBuilderCall, returned |-> "none"]

\* before a RemoteDataPath is constructed
NoPath ==
  [lib |-> "none", op |-> "none", dataId |-> "undefined", signedUrl |-> "undefined",
   result |-> NoCompletion, serialized |-> FALSE, object |-> {}]

Init ==
  /\ InitPoller
  /\ request = IdleRequest
  /\ app = NoApplicationAPI
  /\ auth = NoLoad
  /\ ttl = NoTTLCall
  /\ jobRequest = NoJobRequest
  /\ fetched = [s \in Sessions |-> NoFetches]
  /\ apiCall = NoApiCall
  /\ query = NoQuery
  /\ path = NoPath

\* -------------------------------------------------------- the job accessors

\* API.getJobDetails: GET jobs/<jobId>; requests.get rejects on a transport
\* error or a non-success status, else the job record of the body is
\* returned, whose state field reads as undefined when the record has none
getJobDetails(jobId, http) ==
  CASE http = "ok"      -> Return(jobState[jobId])
    [] http = "nostate" -> Return("undefined")
    [] http = "error"   -> Throw(APIError)

\* API.getJobState(jobId): the state field of the fetched job record
getJobState(details) ==
  IF details.type = "throw" THEN details ELSE Return(details.value)

\* isJobComplete with the name of the final state misspelt
isJobCompleteMisspelt(jobId, details) ==
  LET js == getJobState(details) IN
    IF js.type = "throw" THEN js
    ELSE IF js.value = "FAILED" THEN Throw(JobExecutionError(jobId))
    ELSE Return(IF js.value = "COMPLETED" THEN "true" ELSE "false")

\* isJobComplete without its test for FAILED
isJobCompleteNoRaise(jobId, details) ==
  LET js == getJobState(details) IN
    IF js.type = "throw" THEN js
    ELSE Return(IF js.value = "COMPLETE" THEN "true" ELSE "false")

\* isJobComplete that takes every state but COMPLETE and the four pending
\* ones for a failure
isJobCompleteUnknownRaises(jobId, details) ==
  LET js == getJobState(details) IN
    IF js.type = "throw" THEN js
    ELSE IF js.value \notin {"READY", "QUEUED", "SCHEDULED", "RUNNING", "COMPLETE"}
      THEN Throw(JobExecutionError(jobId))
      ELSE Return(IF js.value = "COMPLETE" THEN "true" ELSE "false")

\* API.isJobComplete(jobId)
isJobComplete(jobId, details) ==
  LET js == getJobState(details) IN
    IF js.type = "throw" THEN js
    ELSE IF js.value = "FAILED" THEN Throw(JobExecutionError(jobId))
    ELSE Return(IF js.value = "COMPLETE" THEN "true" ELSE "false")

\* API.waitUntilJobCompletes: what its caller sees of the promise of
\* waitForCondition: `await` passes a rejection on and drops the value (users);
\* `return` hands the promise over as it is (legacy)
JobWaitOutcome(v, outcome) ==
  IF outcome.status = "resolved" /\ v = "users" THEN Resolved("undefined") ELSE outcome

\* condition(...conditionArgs): the caller's function for a plain wait (what
\* it does on this call is the environment's choice, raw), the bound
\* isJobComplete for a job wait (raw is the completion of its fetch)
condition(kind, conditionArgs, raw) ==
  IF kind = "job" THEN isJobComplete(conditionArgs, raw) ELSE raw

\* ------------------------------------------------------- waitForCondition

\* the deadline with maxWaitTime taken for seconds
DeadlineOfSeconds(t, maxWaitTime) == t + MsPerSecond * maxWaitTime

\* endTime = (new Date()).getTime() + maxWaitTime
Deadline(t, maxWaitTime) == t + maxWaitTime

\* (new Date()).getTime() >= endTime
ExpiredAtDeadline(t, endTime) == t >= endTime

\* (new Date()).getTime() > endTime
Expired(t, endTime) == t > endTime

\* checkCondition with resolve(result) not returned from: it goes on to
\* setTimeout after resolving
checkConditionNoReturn(v, r, t, endTime) ==
  IF r.type = "throw"
    THEN IF v = "users"
           THEN [outcome |-> Rejected(r.error), sleep |-> FALSE, unhandled |-> FALSE]
           ELSE [outcome |-> Pending, sleep |-> FALSE, unhandled |-> TRUE]
    ELSE IF Truthy(r.value)
      THEN [outcome |-> Resolved(r.value), sleep |-> TRUE, unhandled |-> FALSE]
      ELSE IF Expired(t, endTime)
        THEN [outcome |-> Rejected(APITimeoutError), sleep |-> FALSE, unhandled |-> FALSE]
        ELSE [outcome |-> Pending, sleep |-> TRUE, unhandled |-> FALSE]

\* checkCondition with reject(new APITimeoutError(...)) not returned from: it
\* goes on to setTimeout after rejecting
checkConditionTimeoutNoReturn(v, r, t, endTime) ==
  IF r.type = "throw"
    THEN IF v = "users"
           THEN [outcome |-> Rejected(r.error), sleep |-> FALSE, unhandled |-> FALSE]
           ELSE [outcome |-> Pending, sleep |-> FALSE, unhandled |-> TRUE]
    ELSE IF Truthy(r.value)
      THEN [outcome |-> Resolved(r.value), sleep |-> FALSE, unhandled |-> FALSE]
      ELSE IF Expired(t, endTime)
        THEN [outcome |-> Rejected(APITimeoutError), sleep |-> TRUE, unhandled |-> FALSE]
        ELSE [outcome |-> Pending, sleep |-> TRUE, unhandled |-> FALSE]

\* checkCondition with the deadline looked at before the result: a truthy
\* result that arrives after the deadline is a timeout
checkConditionDeadlineFirst(v, r, t, endTime) ==
  IF r.type = "throw"
    THEN IF v = "users"
           THEN [outcome |-> Rejected(r.error), sleep |-> FALSE, unhandled |-> FALSE]
           ELSE [outcome |-> Pending, sleep |-> FALSE, unhandled |-> TRUE]
    ELSE IF Expired(t, endTime)
      THEN [outcome |-> Rejected(APITimeoutError), sleep |-> FALSE, unhandled |-> FALSE]
      ELSE IF Truthy(r.value)
        THEN [outcome |-> Resolved(r.value), sleep |-> FALSE, unhandled |-> FALSE]
        ELSE [outcome |-> Pending, sleep |-> TRUE, unhandled |-> FALSE]

\* the body of checkCondition after the await, given the completion r of the
\* condition at time t: the outcome it settles the promise with (Pending:
\* none), whether it goes on to setTimeout, and whether the error escapes it
checkCondition(v, r, t, endTime) ==
  IF r.type = "throw"
    THEN IF v = "users"
           \* catch (e) { return reject(e); }
           THEN [outcome |-> Rejected(r.error), sleep |-> FALSE, unhandled |-> FALSE]
           \* no try/catch: the promise of checkCondition() rejects, unobserved
           ELSE [outcome |-> Pending, sleep |-> FALSE, unhandled |-> TRUE]
    ELSE IF Truthy(r.value)
      THEN [outcome |-> Resolved(r.value), sleep |-> FALSE, unhandled |-> FALSE]
      ELSE IF Expired(t, endTime)
        THEN [outcome |-> Rejected(APITimeoutError), sleep |-> FALSE, unhandled |-> FALSE]
        ELSE [outcome |-> Pending, sleep |-> TRUE, unhandled |-> FALSE]

\* resolve / reject: a promise settles once, later calls are ignored
Settle(rec, outcome, t) ==
  IF rec.outcome.status = "pending" /\ outcome.status # "pending"
    THEN [rec EXCEPT !.outcome = outcome, !.settledAt = t]
    ELSE rec

\* setTimeout with the deadline moved by the sleep: every tick extends the
\* budget
SetTimeoutExtendsDeadline(rec, t, late) ==
  [rec EXCEPT !.timers = @ \cup {[n |-> rec.sleeps + 1, at |-> t + rec.sleepTime + late]},
              !.sleeps = @ + 1, !.jitter = @ + late,
              !.endTime = @ + rec.sleepTime]

\* setTimeout(checkCondition, sleepTime) at time t: the timer fires once,
\* sleepTime later or, when the event loop is late, `late` after that
SetTimeout(rec, t, late) ==
  [rec EXCEPT !.timers = @ \cup {[n |-> rec.sleeps + 1, at |-> t + rec.sleepTime + late]},
              !.sleeps = @ + 1, !.jitter = @ + late]

\* setInterval in place of setTimeout: the timer that has fired is armed again
ClearFiredInterval(rec, tm) ==
  [rec EXCEPT !.timers = (@ \ {tm}) \cup {[n |-> tm.n, at |-> tm.at + rec.sleepTime]}]

\* a timer that has fired is gone (setTimeout is one-shot)
ClearFired(rec, tm) == [rec EXCEPT !.timers = @ \ {tm}]

\* checkCondition with setTimeout(checkCondition, sleepTime) moved before its
\* await: the next tick is scheduled while the evaluation is in flight
InvokeConditionTimerFirst(rec, t, dur) ==
  [rec EXCEPT !.inflight = @ \cup {[n |-> rec.evals + 1, at |-> t + dur]},
              !.evals = @ + 1, !.jitter = @ + dur,
              !.timers = @ \cup {[n |-> rec.sleeps + 1, at |-> t + rec.sleepTime]},
              !.sleeps = @ + 1]

\* checkCondition() up to its await: the condition is invoked at time t, and
\* its completion arrives dur later
InvokeCondition(rec, t, dur) ==
  [rec EXCEPT !.inflight = @ \cup {[n |-> rec.evals + 1, at |-> t + dur]},
              !.evals = @ + 1, !.jitter = @ + dur]

\* the session record once the evaluation e has completed with raw at time t
AfterAwait(v, rec, e, raw, t, late, maxLog) ==
  LET r == condition(rec.kind, rec.conditionArgs, raw)
      d == checkCondition(v, r, t, rec.endTime)
      rec1 == [rec EXCEPT !.inflight = @ \ {e}, !.last = raw, !.completed = @ + 1,
                          !.log = IF Len(@) < maxLog THEN Append(@, raw) ELSE @,
                          !.unhandled = IF d.unhandled THEN @ + 1 ELSE @]
      rec2 == Settle(rec1, d.outcome, t)
  IN IF d.sleep THEN SetTimeout(rec2, t, late) ELSE rec2

\* the executor with setTimeout(checkCondition, sleepTime) in place of the
\* first checkCondition(): the wait sleeps before it looks
NewSessionSleepFirst(kind, conditionArgs, sleepTime, maxWaitTime, t, dur) ==
  SetTimeout(
    [Idle EXCEPT !.called = TRUE, !.kind = kind, !.conditionArgs = conditionArgs,
                 !.sleepTime = sleepTime, !.maxWaitTime = maxWaitTime,
                 !.startTime = t, !.endTime = Deadline(t, maxWaitTime)],
    t, 0)

\* new Promise(...): the deadline is taken, then checkCondition() is called
NewSession(kind, conditionArgs, sleepTime, maxWaitTime, t, dur) ==
  InvokeCondition(
    [Idle EXCEPT !.called = TRUE, !.kind = kind, !.conditionArgs = conditionArgs,
                 !.sleepTime = sleepTime, !.maxWaitTime = maxWaitTime,
                 !.startTime = t, !.endTime = Deadline(t, maxWaitTime)],
    t, dur)

\* endTime declared at module level: every call overwrites the one deadline
SharedDeadline(ss, s, rec) ==
  [x \in DOMAIN ss |->
     IF x = s THEN rec
     ELSE IF ss[x].called THEN [ss[x] EXCEPT !.endTime = rec.endTime] ELSE ss[x]]

\* endTime, the resolve and reject functions and checkCondition are local to
\* the executor of the promise of one call: a call writes its own record only
OwnRecord(ss, s, rec) == [ss EXCEPT ![s] = rec]

\* ---------------------------------------------------------------- actions

\* the delays a session may still suffer, each at most max
Delays(rec, max) == {d \in 0..max : rec.jitter + d <= MaxJitter}

HttpOutcomes == {"ok", "nostate", "error"}

\* what the environment may answer to the evaluation in flight
RawResults(rec) ==
  IF rec.kind = "job"
    THEN {getJobDetails(rec.conditionArgs, http) : http \in HttpOutcomes}
    ELSE ConditionResults

\* the records a call of waitForCondition may start from at time t
StartsOfWaitForCondition(t) ==
  {NewSession("cond", "none", sleepTime, maxWaitTime, t, dur) :
     sleepTime \in 1..MaxSleepTime, maxWaitTime \in 0..MaxWaitTime, dur \in 0..MaxDur}

\* waitUntilJobCompletes(jobId, sleepTime=5, maxWaitTime=600)
DefaultSleepTime == 5
DefaultMaxWaitTime == 600

\* a parameter with a default value: the default stands in for undefined
DefaultTo(x, default) == IF x.given THEN x.n ELSE default

\* waitUntilJobCompletes with maxWaitTime handed over in seconds
waitUntilJobCompletesArgsMaxUnscaled(jobId, sleepTime, maxWaitTime) ==
  [conditionArgs |-> jobId,
   sleepTime |-> MsPerSecond * DefaultTo(sleepTime, DefaultSleepTime),
   maxWaitTime |-> DefaultTo(maxWaitTime, DefaultMaxWaitTime)]

\* waitUntilJobCompletes: the arguments of its call
\* utils.waitForCondition(boundIsJobComplete, [jobId], 1000 * sleepTime,
\* 1000 * maxWaitTime)
waitUntilJobCompletesArgs(jobId, sleepTime, maxWaitTime) ==
  [conditionArgs |-> jobId,
   sleepTime |-> MsPerSecond * DefaultTo(sleepTime, DefaultSleepTime),
   maxWaitTime |-> MsPerSecond * DefaultTo(maxWaitTime, DefaultMaxWaitTime)]

\* the records a call of waitUntilJobCompletes may start from at time t
StartsOfWaitUntilJobCompletes(jobIds, configs, t) ==
  {LET a == waitUntilJobCompletesArgs(jobId, Number(cfg[1]), Number(cfg[2]))
   IN NewSession("job", a.conditionArgs, a.sleepTime, a.maxWaitTime, t, dur) :
     jobId \in jobIds, cfg \in configs, dur \in 0..MaxDur}

\* the records a session may be in once its evaluation due at t has completed
AfterCompletion(v, rec, t, maxLog) ==
  {AfterAwait(v, rec, e, raw, t, late, maxLog) :
     e \in {x \in rec.inflight : x.at = t},
     raw \in RawResults(rec), late \in Delays(rec, MaxLate)}

\* the records a session may be in once its timer due at t has fired
AfterTimer(rec, t) ==
  {InvokeCondition(ClearFired(rec, tm), t, dur) :
     tm \in {x \in rec.timers : x.at = t}, dur \in Delays(rec, MaxDur)}

\* utils.waitForCondition(condition, conditionArgs, sleepTime, maxWaitTime)
waitForCondition(s) ==
  /\ ~sess[s].called
  /\ \E rec \in StartsOfWaitForCondition(now) : sess' = OwnRecord(sess, s, rec)
  /\ UNCHANGED <<now, variant, jobState, others>>

\* api.waitUntilJobCompletes(jobId, sleepTime, maxWaitTime), the arguments
\* drawn from jobIds and configs
waitUntilJobCompletes(s, jobIds, configs) ==
  /\ ~sess[s].called
  /\ \E rec \in StartsOfWaitUntilJobCompletes(jobIds, configs, now) :
       sess' = OwnRecord(sess, s, rec)
  /\ UNCHANGED <<now, variant, jobState, others>>

\* the awaited condition completes and checkCondition runs to its end
ConditionCompletes(s, maxLog) ==
  /\ \E rec \in AfterCompletion(variant, sess[s], now, maxLog) :
       sess' = OwnRecord(sess, s, rec)
  /\ UNCHANGED <<now, variant, jobState, others>>

\* a timer fires: checkCondition is called again
TimerFires(s) ==
  /\ \E rec \in AfterTimer(sess[s], now) : sess' = OwnRecord(sess, s, rec)
  /\ UNCHANGED <<now, variant, jobState, others>>

\* the platform moves a job forward, to one of states
JobAdvances(j, states) ==
  /\ \E st \in states :
       /\ StateRank(st) > StateRank(jobState[j])
       /\ jobState' = [jobState EXCEPT ![j] = st]
  /\ UNCHANGED <<now, variant, sess, others>>

\* the times at which something is due
EventTimes ==
  UNION {{e.at : e \in sess[s].inflight} \cup {tm.at : tm \in sess[s].timers} :
         s \in Sessions}

Min(S) == CHOOSE x \in S : \A y \in S : x <= y

\* time passes until the next completion or timer
TimePasses ==
  /\ EventTimes # {}
  /\ \A t \in EventTimes : t > now
  /\ now' = Min(EventTimes)
  /\ UNCHANGED <<variant, jobState, sess, others>>

\* one wait session, of either kind
Next ==
  \/ waitForCondition(1)
  \/ waitUntilJobCompletes(1, {"j1"}, JobWaitConfigs)
  \/ ConditionCompletes(1, MaxLog)
  \/ TimerFires(1)
  \/ JobAdvances("j1", JobState)
  \/ TimePasses

Spec == Init /\ [][Next]_vars

\* two job waits side by side, session 1 on job j1 and session 2 on job j2,
\* session 1 being the one called first
JobOf(s) == IF s = 1 THEN "j1" ELSE "j2"

ConcurrentJobStates == {"RUNNING", "COMPLETE", "FAILED"}

NextConcurrent ==
  \/ \E s \in Sessions :
       /\ s = 1 \/ sess[1].called
       /\ waitUntilJobCompletes(s, {JobOf(s)}, ConcurrentWaitConfigs)
  \/ \E s \in Sessions : ConditionCompletes(s, 0)
  \/ \E s \in Sessions : TimerFires(s)
  \/ \E j \in JobIds : JobAdvances(j, ConcurrentJobStates)
  \/ TimePasses

SpecConcurrent == Init /\ [][NextConcurrent]_vars

\* ------------------------------------------------------ the request helpers

\* what the request module hands to the callback: a transport error, or a
\* response with its status code and body
TransportErrors == {[name |-> "Error", message |-> "ECONNRESET"],
                    [name |-> "Error", message |-> "ETIMEDOUT"]}
StatusCodes == {200, 204, 299, 300, 404, 500}
\* a body that is the JSON of {error: {code, message}}, JSON without an
\* error member, and text that is not JSON
Bodies == {"json-error", "json-other", "text"}
Answers ==
  {[err |-> e, statusCode |-> 0, body |-> "none"] : e \in TransportErrors}
    \cup {[err |-> NoError, statusCode |-> c, body |-> b] : c \in StatusCodes, b \in Bodies}

\* new Error(body) with error.code = statusCode
HttpError(body) == [name |-> "Error", message |-> body]

\* APIError.fromResponseBody(body): JSON.parse(body).error, then
\* new APIError(err.message, err.code)
fromResponseBody(body) ==
  CASE body = "json-error" -> Return(APIError)
    [] body = "json-other" -> Throw([name |-> "TypeError", message |-> "err is undefined"])
    [] OTHER               -> Throw([name |-> "SyntaxError", message |-> "JSON.parse"])

\* validate(res, body): the completion of the promise it returns; an error
\* thrown in the executor rejects that promise
validate(lib, answer) ==
  IF answer.err # NoError
    \* res is undefined: res.statusCode throws
    THEN Throw([name |-> "TypeError", message |-> "res is undefined"])
    ELSE IF lib = "users"
      THEN IF answer.statusCode < 300
             THEN Return(answer.body)
             ELSE LET e == fromResponseBody(answer.body) IN
                    IF e.type = "throw" THEN e ELSE Throw(e.value)
      ELSE IF answer.statusCode > 299
             THEN Throw(HttpError(answer.body))
             ELSE Return(answer.body)

\* the promise a completion settles: resolve(value) or reject(error)
SettleWith(r) == IF r.type = "throw" THEN Rejected(r.error) ELSE Resolved(r.value)

\* the callback of request.<method>: the calls of resolve and reject it
\* makes, in order, and whether an error escapes it
callback(lib, answer) ==
  CASE lib = "users" ->
         \* if (err) return reject(err); validate_(...).then(resolve).catch(reject)
         [calls |-> IF answer.err # NoError THEN <<Rejected(answer.err)>>
                    ELSE <<SettleWith(validate(lib, answer))>>,
          unhandled |-> FALSE]
    [] lib = "lib" ->
         \* if (err) { reject(err); } try { resolve(await validate(...)) }
         \* catch (err) { reject(err); }
         [calls |-> (IF answer.err # NoError THEN <<Rejected(answer.err)>> ELSE <<>>)
                      \o <<SettleWith(validate(lib, answer))>>,
          unhandled |-> FALSE]
    [] lib = "root" ->
         \* if (err) { reject(err); } else { resolve(await validate(...)); }
         IF answer.err # NoError
           THEN [calls |-> <<Rejected(answer.err)>>, unhandled |-> FALSE]
           ELSE LET r == validate(lib, answer) IN
                  IF r.type = "throw"
                    \* the await throws in the async callback: resolve is not reached
                    THEN [calls |-> <<>>, unhandled |-> TRUE]
                    ELSE [calls |-> <<Resolved(r.value)>>, unhandled |-> FALSE]

\* a promise settles with the first call of resolve or reject
FirstSettles(promise, calls) ==
  IF promise.status = "pending" /\ Len(calls) > 0 THEN calls[1] ELSE promise

\* requests.<method>(uri, headers, options): the request is sent and the
\* pending promise returned
Send(lib, method) ==
  /\ request.phase = "idle"
  /\ request' = [IdleRequest EXCEPT !.lib = lib, !.method = method, !.phase = "sent"]
  /\ UNCHANGED <<poller, app, auth, ttl, jobRequest, later>>

get(lib) == Send(lib, "get")
post(lib) == Send(lib, "post")
put(lib) == Send(lib, "put")
delete(lib) == Send(lib, "delete")

\* the request module calls the callback with its answer
Responds ==
  /\ request.phase = "sent"
  /\ \E answer \in Answers :
       LET c == callback(request.lib, answer) IN
         request' = [request EXCEPT
                       !.phase = "answered", !.answer = answer,
                       !.promise = FirstSettles(@, c.calls),
                       !.calls = Len(c.calls),
                       !.settles = IF Len(c.calls) > 0 THEN 1 ELSE 0,
                       !.unhandled = c.unhandled]
  /\ UNCHANGED <<poller, app, auth, ttl, jobRequest, later>>

NextRequests ==
  \/ \E lib \in RequestLibs : get(lib)
  \/ \E lib \in RequestLibs : post(lib)
  \/ \E lib \in RequestLibs : put(lib)
  \/ \E lib \in RequestLibs : delete(lib)
  \/ Responds

SpecRequests == Init /\ [][NextRequests]_vars

\* -------------------------------------------------------------- loadToken

\* the two auth modules: lib/users/auth.js and lib/apps/auth.js
AuthLibs == {"users", "apps"}

\* what `if (x)` takes for no value: null, undefined and the empty string
Absent == {"null", "undefined", ""}

\* the tokenPath argument: none, or the path of a file
TokenPathArgs == {"null", "", "arg-valid", "arg-invalid", "arg-missing"}
\* the private key environment variable: unset, empty, or a key
PrivateKeyEnvs == {"undefined", "", "k1"}
\* the token environment variable: unset, empty, or the path of a file
TokenEnvs == {"undefined", "", "env-valid", "env-invalid", "env-missing"}
\* the file at TOKEN_PATH
HomeFiles == {"missing", "invalid", "valid"}

TOKEN_PATH == "home"

\* the file system: what is at path p
FileAt(p, home) ==
  CASE p = TOKEN_PATH                     -> home
    [] p \in {"arg-valid", "env-valid"}     -> "valid"
    [] p \in {"arg-invalid", "env-invalid"} -> "invalid"
    [] OTHER                                -> "missing"

\* new TokenError(message), new ApplicationTokenError(message)
TokenError(lib, message) ==
  [name |-> IF lib = "apps" THEN "ApplicationTokenError" ELSE "TokenError",
   message |-> message]

\* Token.fromJSON(path), ApplicationToken.fromJSON(path): the token of the
\* file, whose private key is written here as the path of the file
fromJSON(lib, p, home) ==
  IF FileAt(p, home) = "valid"
    THEN Return([class |-> IF lib = "apps" THEN "ApplicationToken" ELSE "Token",
                 privateKey |-> p])
    ELSE Throw([name |-> "SyntaxError", message |-> p])

\* Token.fromPrivateKey(privateKey, baseAPIURL): `new Token(...)`, also when
\* called as the inherited ApplicationToken.fromPrivateKey
fromPrivateKey(lib, privateKey) == Return([class |-> "Token", privateKey |-> privateKey])

\* loadTokenFromPath_(tokenPath)
loadTokenFromPath_(lib, p, home) ==
  IF FileAt(p, home) = "missing"
    THEN Throw(TokenError(lib, "No file found"))
    ELSE LET r == fromJSON(lib, p, home) IN
           IF r.type = "throw" THEN Throw(TokenError(lib, "not a valid token")) ELSE r

\* getActiveTokenPath with TOKEN_PATH tried before the environment variable
getActiveTokenPathHomeFirst(lib, privateKey, tokenEnv, home) ==
  IF privateKey \notin Absent
    THEN [result |-> Return("undefined"), looked |-> {"privateKey"}]
    ELSE IF FileAt(TOKEN_PATH, home) # "missing"
      THEN [result |-> Return(TOKEN_PATH), looked |-> {"privateKey", "home"}]
      ELSE IF tokenEnv \notin Absent
        THEN [result |-> IF FileAt(tokenEnv, home) = "missing"
                           THEN Throw(TokenError(lib, "No file found at env"))
                           ELSE Return(tokenEnv),
              looked |-> {"privateKey", "home", "tokenEnv"}]
        ELSE [result |-> Return(tokenEnv), looked |-> {"privateKey", "home", "tokenEnv"}]

\* getActiveTokenPath(): the path it returns or the error it throws, and the
\* sources it looked at
getActiveTokenPath(lib, privateKey, tokenEnv, home) ==
  IF privateKey \notin Absent
    THEN [result |-> Return("undefined"), looked |-> {"privateKey"}]
    ELSE IF tokenEnv \notin Absent
      THEN [result |-> IF FileAt(tokenEnv, home) = "missing"
                         THEN Throw(TokenError(lib, "No file found at env"))
                         ELSE Return(tokenEnv),
            looked |-> {"privateKey", "tokenEnv"}]
      ELSE IF FileAt(TOKEN_PATH, home) # "missing"
        THEN [result |-> Return(TOKEN_PATH), looked |-> {"privateKey", "tokenEnv", "home"}]
        ELSE [result |-> Return(tokenEnv), looked |-> {"privateKey", "tokenEnv", "home"}]

\* loadToken(tokenPath=null), loadApplicationToken(tokenPath=null): the token
\* it returns or the error it throws, and the sources it looked at
loadToken(lib, tokenPath, privateKey, tokenEnv, home) ==
  IF tokenPath \notin Absent
    THEN [result |-> loadTokenFromPath_(lib, tokenPath, home), looked |-> {"tokenPath"}]
    ELSE IF privateKey \notin Absent
      THEN [result |-> fromPrivateKey(lib, privateKey),
            looked |-> {"tokenPath", "privateKey"}]
      ELSE LET a == getActiveTokenPath(lib, privateKey, tokenEnv, home)
               looked == {"tokenPath"} \cup a.looked
           IN IF a.result.type = "throw"
                THEN [result |-> a.result, looked |-> looked]
                ELSE IF a.result.value \notin Absent
                  THEN [result |-> loadTokenFromPath_(lib, a.result.value, home),
                        looked |-> looked]
                  ELSE [result |-> Throw(TokenError(lib, "No token found")),
                        looked |-> looked]

\* a call of loadToken or loadApplicationToken, in some surroundings
CallLoadToken(lib) ==
  /\ auth.phase = "idle"
  /\ \E tokenPath \in TokenPathArgs, privateKey \in PrivateKeyEnvs,
        tokenEnv \in TokenEnvs, home \in HomeFiles :
       LET l == loadToken(lib, tokenPath, privateKey, tokenEnv, home) IN
         auth' = [lib |-> lib, tokenPath |-> tokenPath, privateKey |-> privateKey,
                  tokenEnv |-> tokenEnv, home |-> home, phase |-> "loaded",
                  result |-> l.result, looked |-> l.looked]
  /\ UNCHANGED <<poller, request, app, ttl, jobRequest, later>>

NextToken ==
  \/ CallLoadToken("users")
  \/ CallLoadToken("apps")

SpecToken == Init /\ [][NextToken]_vars

\* --------------------------------------------------------- ApplicationAPI

\* at most MaxCalls calls of withUser and exitUser are made on one instance
MaxCalls == 4

\* the tokens handed to the constructor
ApplicationTokens ==
  {[class |-> "ApplicationToken", privateKey |-> k] : k \in {"k1", "k2"}}
\* the names of users of the application
Usernames == {"alice", "bob"}

\* token.getHeader(username): ApplicationToken.getHeader(username=null) gives
\* the x-voxel51-application field, and x-voxel51-application-user when a
\* username is given; Token.getHeader() gives Authorization: Bearer
getHeader(token, username) ==
  IF token.class = "ApplicationToken"
    THEN [scheme |-> "application", key |-> token.privateKey,
          user |-> IF username \notin Absent THEN username ELSE "absent"]
    ELSE [scheme |-> "bearer", key |-> token.privateKey, user |-> "absent"]

\* new ApplicationAPI(token): API's constructor takes token.getHeader()
ApplicationAPI(token) ==
  [constructed |-> TRUE, token |-> token, activeUser |-> "null",
   header_ |-> getHeader(token, "null"), calls |-> <<>>]

\* ApplicationAPI.withUser(username)
withUser(api, username) ==
  [api EXCEPT !.activeUser = username,
              !.header_ = getHeader(api.token, username),
              !.calls = Append(@, [op |-> "withUser", username |-> username])]

\* ApplicationAPI.exitUser()
exitUser(api) ==
  [api EXCEPT !.activeUser = "null",
              !.header_ = getHeader(api.token, "null"),
              !.calls = Append(@, [op |-> "exitUser", username |-> "none"])]

\* the tokens new ApplicationAPI(token=null) may end up with:
\* token || auth.loadApplicationToken()
ConstructorTokens ==
  ApplicationTokens
    \cup {l.value : l \in {x \in {loadToken("apps", "null", privateKey, tokenEnv, home).result :
                                    privateKey \in PrivateKeyEnvs, tokenEnv \in TokenEnvs,
                                    home \in HomeFiles} : x.type = "return"}}

NewApplicationAPI ==
  /\ ~app.constructed
  /\ \E token \in ConstructorTokens : app' = ApplicationAPI(token)
  /\ UNCHANGED <<poller, request, auth, ttl, jobRequest, later>>

CallWithUser ==
  /\ app.constructed /\ Len(app.calls) < MaxCalls
  /\ \E u \in Usernames : app' = withUser(app, u)
  /\ UNCHANGED <<poller, request, auth, ttl, jobRequest, later>>

CallExitUser ==
  /\ app.constructed /\ Len(app.calls) < MaxCalls
  /\ app' = exitUser(app)
  /\ UNCHANGED <<poller, request, auth, ttl, jobRequest, later>>

NextApplication ==
  \/ NewApplicationAPI
  \/ CallWithUser
  \/ CallExitUser

SpecApplication == Init /\ [][NextApplication]_vars

\* --------------------------------------------------------- the job TTL

\* days is left out or a number in -MaxDays..MaxDays
MaxDays == 2

\* a Date, and a string in ISO 8601 format
DateOf(iso) == [given |-> TRUE, n |-> 0, kind |-> "Date", text |-> iso]
StringOf(s) == [given |-> TRUE, n |-> 0, kind |-> "string", text |-> s]

DaysArgs == {Undefined} \cup {Number(n) : n \in (0 - MaxDays)..MaxDays}
ExpirationDateArgs ==
  {Undefined, DateOf("2030-01-01T00:00:00.000Z"), StringOf("2031-06-30T12:00:00.000Z")}

\* if (x): undefined, 0 and the empty string are falsy
TruthyArg(x) ==
  /\ x.given
  /\ x.kind = "number" => x.n # 0
  /\ x.kind = "string" => x.text # ""

\* parseDate_(dateOrStr): toISOString() of a Date, toString() otherwise
parseDate_(dateOrStr) == dateOrStr.text

\* formData = {}, then days and expiration_date put in where given
FormData(days, expirationDate) ==
  [days |-> IF TruthyArg(days) THEN ToString(days.n) ELSE "absent",
   expiration_date |-> IF TruthyArg(expirationDate)
                         THEN parseDate_(expirationDate) ELSE "absent"]

\* Object.keys(formData).length
KeysOf(formData) ==
  {k \in {"days", "expiration_date"} : formData[k] # "absent"}

\* new APIError('Either `days` or `expirationDate` must be provided', 400)
TTLArgumentError ==
  [name |-> "APIError", message |-> "400: Either days or expirationDate must be provided"]

\* the body of updateJobTTL and of batchUpdateJobsTTL: the requests made
\* and the completion of the call, http being what the platform answers
UpdateTTL(op, ids, days, expirationDate, http) ==
  LET formData == FormData(days, expirationDate) IN
    IF Cardinality(KeysOf(formData)) # 1
      THEN [sent |-> <<>>, result |-> Throw(TTLArgumentError)]
      ELSE [sent |-> <<[method |-> IF op = "updateJobTTL" THEN "put" ELSE "post",
                        ids |-> ids, data |-> formData]>>,
            result |-> IF http = "error" THEN Throw(APIError) ELSE Return("undefined")]

TTLCall(op, idSets) ==
  /\ ttl.phase = "idle"
  /\ \E ids \in idSets, days \in DaysArgs, expirationDate \in ExpirationDateArgs,
        http \in {"ok", "error"} :
       LET u == UpdateTTL(op, ids, days, expirationDate, http) IN
         ttl' = [op |-> op, ids |-> ids, days |-> days, expirationDate |-> expirationDate,
                 phase |-> "done", result |-> u.result, sent |-> u.sent]
  /\ UNCHANGED <<poller, request, app, auth, jobRequest, later>>

\* api.updateJobTTL(jobId, days, expirationDate)
updateJobTTL == TTLCall("updateJobTTL", {{j} : j \in JobIds})

\* api.batchUpdateJobsTTL(jobIds, days, expirationDate)
batchUpdateJobsTTL == TTLCall("batchUpdateJobsTTL", (SUBSET JobIds) \ {{}})

NextTTL ==
  \/ updateJobTTL
  \/ batchUpdateJobsTTL

SpecTTL == Init /\ [][NextTTL]_vars

\* ------------------------------------------- JobRequest and RemoteDataPath

\* the two jobs modules: lib/users/jobs.js and lib/jobs.js
JobLibs == {"users", "lib"}

\* the parameters of a job request in JSON: obj.parameters[name], name by name
ParameterNames == <<"p", "q">>

\* JSON values: null, numbers, strings, booleans, arrays, and objects, of
\* which what matters is the data-id and signed-url members (absent, null
\* or a string)
Primitives == {"null", "number", "string", "boolean"}
JsonValues ==
  {[type |-> ty, dataId |-> "absent", signedUrl |-> "absent"] :
     ty \in Primitives \cup {"array"}}
    \cup {[type |-> "object", dataId |-> d, signedUrl |-> u] :
            d \in {"absent", "null", "d1"}, u \in {"absent", "null", "u1"}}

RemoteDataPathError == [name |-> "RemoteDataPathError", message |-> "Invalid RemoteDataPath"]
InOperatorError == [name |-> "TypeError", message |-> "Cannot use 'in' operator"]

\* a parameter with the default value null: null stands in for undefined
DefaultNull(x) == IF x = "undefined" THEN "null" ELSE x

\* get hasDataId()
hasDataId(this) == this.dataId # "null"

\* get hasSignedUrl()
hasSignedUrl(this) == this.signedUrl # "null"

\* get isValid()
isValid(lib, this) ==
  IF lib = "users" THEN hasDataId(this) ELSE hasDataId(this) \/ hasSignedUrl(this)

\* the constructor without its test of isValid
RemoteDataPathUnchecked(lib, dataId, signedUrl) ==
  Return([kind |-> "data", dataId |-> DefaultNull(dataId),
          signedUrl |-> IF lib = "users" THEN "null" ELSE DefaultNull(signedUrl)])

\* new RemoteDataPath(dataId = null) of lib/users/jobs.js and
\* new RemoteDataPath(dataId = null, signedUrl = null) of lib/jobs.js: the
\* constructor throws when isValid is false
RemoteDataPath(lib, dataId, signedUrl) ==
  LET this == [kind |-> "data", dataId |-> DefaultNull(dataId),
               signedUrl |-> IF lib = "users" THEN "null" ELSE DefaultNull(signedUrl)]
  IN IF isValid(lib, this) THEN Return(this) ELSE Throw(RemoteDataPathError)

\* RemoteDataPath.fromObject(obj)
RemoteDataPath_fromObject(lib, obj) ==
  IF obj.type \in Primitives
    \* `DATA_ID_FIELD in obj` throws for what is not an object
    THEN Throw(InOperatorError)
    ELSE IF obj.dataId # "absent"
      THEN RemoteDataPath(lib, obj.dataId, "null")
      ELSE IF lib = "lib" /\ obj.signedUrl # "absent"
        THEN RemoteDataPath(lib, "null", obj.signedUrl)
        ELSE Throw(RemoteDataPathError)

\* RemoteDataPath.isRemotePathObject(val)
isRemotePathObject(lib, val) ==
  LET r == RemoteDataPath_fromObject(lib, val) IN
    IF lib = "users"
      \* try { RemoteDataPath.fromObject(val); return true; } catch (e) { return false; }
      THEN Return(IF r.type = "return" THEN "true" ELSE "false")
      \* return val instanceof Object && RemoteDataPath.fromObject(val).isValid;
      ELSE IF val.type \in Primitives
        THEN Return("false")
        ELSE IF r.type = "throw" THEN r ELSE Return("true")

\* the body of the loop over obj.parameters for one name: the parameter as
\* it is set, or the error thrown
SetParameterFrom(lib, val) ==
  LET is == isRemotePathObject(lib, val) IN
    IF is.type = "throw" THEN is
    ELSE IF is.value = "true"
      THEN RemoteDataPath_fromObject(lib, val)
      ELSE Return([kind |-> "value", val |-> val])

\* JobRequest.fromObject(obj): the parameters of the job request, or the
\* first error thrown in the loop
JobRequest_fromObject(lib, parameters) ==
  LET set == [i \in DOMAIN parameters |-> SetParameterFrom(lib, parameters[i])]
      thrown == {i \in DOMAIN parameters : set[i].type = "throw"}
  IN IF thrown = {}
       THEN Return([i \in DOMAIN parameters |-> set[i].value])
       ELSE set[Min(thrown)]

\* a call of JobRequest.fromObject on the JSON of a job request
CallFromObject(lib) ==
  /\ jobRequest.phase = "idle"
  /\ \E parameters \in [DOMAIN ParameterNames -> JsonValues] :
       jobRequest' =
         [lib |-> lib, parameters |-> parameters, phase |-> "done",
          remote |-> [i \in DOMAIN parameters |-> isRemotePathObject(lib, parameters[i])],
          result |-> JobRequest_fromObject(lib, parameters)]
  /\ UNCHANGED <<poller, request, app, auth, ttl, later>>

NextJobRequest ==
  \/ CallFromObject("users")
  \/ CallFromObject("lib")

SpecJobRequest == Init /\ [][NextJobRequest]_vars

\* ------------------------------------- job waits on an ApplicationAPI

\* getJobDetails with the header taken once, at the first fetch of the wait
JobFetchFirstHeader(api, jobId, seen) ==
  [uri |-> jobId,
   headers |-> IF seen.count > 0 THEN seen.first.headers ELSE api.header_,
   after |-> Len(api.calls)]

\* API.getJobDetails(jobId): requests.get(urljoin(baseURL, 'jobs', jobId),
\* this.header_), made after so many calls of withUser and exitUser
JobFetch(api, jobId, seen) ==
  [uri |-> jobId, headers |-> api.header_, after |-> Len(api.calls)]

\* the fetches of a session with one more made
Fetched(seen, fetch) ==
  [count |-> seen.count + 1,
   first |-> IF seen.count = 0 THEN fetch ELSE seen.first,
   last |-> fetch]

\* the instances the waits run on: one holding an ApplicationToken, and one
\* holding the Token that loadApplicationToken makes of a private key
WaitingAPIs ==
  {ApplicationAPI([class |-> c, privateKey |-> "k1"]) : c \in {"ApplicationToken", "Token"}}

AppWaitConfigs == {<<1, 0>>, <<1, 1>>}

\* at most MaxSwitches calls of withUser and exitUser are made while the
\* waits run
MaxSwitches == 2

\* ApplicationAPI extends the API of lib/users/api.js
InitAppWait ==
  /\ InitPoller /\ variant = "users"
  /\ request = IdleRequest
  /\ app \in WaitingAPIs
  /\ auth = NoLoad
  /\ ttl = NoTTLCall
  /\ jobRequest = NoJobRequest
  /\ fetched = [s \in Sessions |-> NoFetches]
  /\ apiCall = NoApiCall
  /\ query = NoQuery
  /\ path = NoPath

\* api.waitUntilJobCompletes(jobId, sleepTime, maxWaitTime) on the
\* ApplicationAPI: the first checkCondition() makes the first fetch
AppWaitStarts(s) ==
  /\ ~sess[s].called
  /\ \E rec \in StartsOfWaitUntilJobCompletes({JobOf(s)}, AppWaitConfigs, now) :
       /\ sess' = OwnRecord(sess, s, rec)
       /\ fetched' = [fetched EXCEPT ![s] =
                        Fetched(@, JobFetch(app, rec.conditionArgs, @))]
  /\ UNCHANGED <<now, variant, jobState, request, app, auth, ttl, jobRequest, besidesFetched>>

\* a timer fires: checkCondition is called again and makes the next fetch
AppTimerFires(s) ==
  /\ \E rec \in AfterTimer(sess[s], now) :
       /\ sess' = OwnRecord(sess, s, rec)
       /\ fetched' = [fetched EXCEPT ![s] =
                        Fetched(@, JobFetch(app, rec.conditionArgs, @))]
  /\ UNCHANGED <<now, variant, jobState, request, app, auth, ttl, jobRequest, besidesFetched>>

\* api.withUser(username) or api.exitUser() between the polls
SwitchUser ==
  /\ Len(app.calls) < MaxSwitches
  /\ \/ \E u \in Usernames : app' = withUser(app, u)
     \/ app' = exitUser(app)
  /\ UNCHANGED <<poller, request, auth, ttl, jobRequest, later>>

\* one job wait on the instance, and the calls that switch its user
NextAppWait ==
  \/ AppWaitStarts(1)
  \/ ConditionCompletes(1, 0)
  \/ AppTimerFires(1)
  \/ SwitchUser
  \/ JobAdvances("j1", {"COMPLETE"})
  \/ TimePasses

SpecAppWait == InitAppWait /\ [][NextAppWait]_vars

\* ------------------------------------------------- calls of the job methods

\* the seconds given for sleepTime (1..MaxSeconds) and maxWaitTime
\* (0..MaxSeconds) when they are given
MaxSeconds == 3

\* lib/users/jobs.js JobFailureType, and a job record with no failure type
FailureTypes == {"USER", "ANALYTIC", "PLATFORM", "NONE", "absent"}

\* job metadata objects, as getJobDetails() and queryJobs() return them
JobMetadata ==
  {[id |-> j, state |-> st, failure_type |-> f] :
     j \in JobIds, st \in {"RUNNING", "COMPLETE", "FAILED"}, f \in FailureTypes}

\* new APIError('Either `jobId` or `job` must be provided', 400)
JobArgumentError ==
  [name |-> "APIError", message |-> "400: Either jobId or job must be provided"]

\* API.getJobState(jobId, job) of the users API, API.getJobState(jobId) of
\* the legacy one; fetchedJob is the completion of getJobDetails(jobId)
getJobStateOf(v, jobId, job, fetchedJob) ==
  IF v = "legacy" \/ jobId # "undefined"
    THEN IF fetchedJob.type = "throw" THEN fetchedJob ELSE Return(fetchedJob.value.state)
    ELSE IF job # NoJob
      THEN Return(job.state)
      ELSE Throw(JobArgumentError)

\* API.isJobComplete(jobId, job)
isJobCompleteOf(v, jobId, job, fetchedJob) ==
  LET js == getJobStateOf(v, jobId, job, fetchedJob) IN
    IF js.type = "throw" THEN js
    ELSE IF js.value = "FAILED" THEN Throw(JobExecutionError(jobId))
    ELSE Return(IF js.value = "COMPLETE" THEN "true" ELSE "false")

\* what getJobDetails(jobId) may complete with: the metadata of that job, or
\* the error of the request; no request is made for no jobId in the users API
FetchedJobs(v, jobId) ==
  IF v = "users" /\ jobId = "undefined"
    THEN {NoCompletion}
    ELSE {Return(m) : m \in {x \in JobMetadata : x.id = jobId}} \cup {Throw(APIError)}

\* api.isJobComplete(jobId) and, in the users API, api.isJobComplete(undefined, job)
CallIsJobComplete ==
  /\ apiCall.op = "none"
  /\ \E jobId \in JobIds \cup {"undefined"}, job \in JobMetadata \cup {NoJob} :
       /\ variant = "legacy" => jobId # "undefined" /\ job = NoJob
       /\ \E fetchedJob \in FetchedJobs(variant, jobId) :
            apiCall' = [NoApiCall EXCEPT
                          !.op = "isJobComplete", !.jobId = jobId, !.job = job,
                          !.fetchedJob = fetchedJob,
                          !.result = isJobCompleteOf(variant, jobId, job, fetchedJob)]
  /\ UNCHANGED <<poller, request, app, auth, ttl, jobRequest, besidesApiCall>>

\* api.waitUntilJobCompletes(jobId, sleepTime, maxWaitTime), each of the two
\* times given or left out: the call of waitForCondition it makes
CallWaitUntilJobCompletes ==
  /\ apiCall.op = "none"
  /\ \E jobId \in JobIds,
        sleepTime \in {Undefined} \cup {Number(n) : n \in 1..MaxSeconds},
        maxWaitTime \in {Undefined} \cup {Number(n) : n \in 0..MaxSeconds} :
       apiCall' = [NoApiCall EXCEPT
                     !.op = "waitUntilJobCompletes", !.jobId = jobId,
                     !.sleepTime = sleepTime, !.maxWaitTime = maxWaitTime,
                     !.delegated = waitUntilJobCompletesArgs(jobId, sleepTime, maxWaitTime)]
  /\ UNCHANGED <<poller, request, app, auth, ttl, jobRequest, besidesApiCall>>

NextApiCall ==
  \/ CallIsJobComplete
  \/ CallWaitUntilJobCompletes

SpecApiCall == Init /\ [][NextApiCall]_vars

\* ------------------------------------------------------------ BaseQuery

\* the builder calls made on one query
MaxQueryCalls == 3

\* strings, character by character
FieldId == <<"i", "d">>
FieldName == <<"n", "a", "m", "e">>
FieldBogus == <<"n", "a">>
FieldWithColon == <<"i", "d", ":", "x">>

\* the arrays a BaseQuery is constructed with
SupportedFieldArrays == {<<FieldId, FieldName>>, <<FieldName>>}

\* the fields, search strings and numbers the builders are called with
FieldArgs == {FieldId, FieldName, FieldBogus, FieldWithColon}
FieldsArgs == {<<FieldId, FieldBogus>>, <<FieldBogus, FieldWithColon>>, <<>>}
SearchStrArgs == {<<"a">>, <<"a", ":", "b">>}
SearchStrsArgs == {<<<<"a">>, <<"b">>>>, <<>>}
\* String(x) of the numbers and strings given for an offset or a limit:
\* 0, 2, -1, 1.5, "2x", " 1", "abc", "", undefined
NumberArgs ==
  {<<"0">>, <<"2">>, <<"-", "1">>, <<"1", ".", "5">>, <<"2", "x">>, <<" ", "1">>,
   <<"a", "b", "c">>, <<>>,
   <<"u", "n", "d", "e", "f", "i", "n", "e", "d">>}

Digits == <<"0", "1", "2", "3", "4", "5", "6", "7", "8", "9">>
IsDigit(c) == \E i \in 1..Len(Digits) : Digits[i] = c
DigitValue(c) == (CHOOSE i \in 1..Len(Digits) : Digits[i] = c) - 1

NaN == [nan |-> TRUE, n |-> 0]

RECURSIVE TrimStart(_)
\* the string without its leading white space
TrimStart(s) == IF s # <<>> /\ Head(s) = " " THEN TrimStart(Tail(s)) ELSE s

RECURSIVE DigitPrefix(_)
\* the digits a string starts with
DigitPrefix(s) ==
  IF s # <<>> /\ IsDigit(Head(s)) THEN <<Head(s)>> \o DigitPrefix(Tail(s)) ELSE <<>>

RECURSIVE ValueOf(_)
\* the number a sequence of decimal digits denotes
ValueOf(d) ==
  IF d = <<>> THEN 0 ELSE 10 * ValueOf(SubSeq(d, 1, Len(d) - 1)) + DigitValue(d[Len(d)])

\* Number.parseInt(x): the integer that String(x) starts with, after white
\* space and a sign, or NaN when it starts with none
parseInt(s) ==
  LET t == TrimStart(s)
      signed == t # <<>> /\ Head(t) \in {"-", "+"}
      d == DigitPrefix(IF signed THEN Tail(t) ELSE t)
  IN IF d = <<>> THEN NaN
     ELSE [nan |-> FALSE, n |-> IF signed /\ Head(t) = "-" THEN 0 - ValueOf(d) ELSE ValueOf(d)]

isNaN(x) == x.nan

\* new BaseQuery(supportedFields)
BaseQuery(supportedFields) ==
  [supportedFields_ |-> supportedFields, fields |-> <<>>, search |-> <<>>,
   sort |-> Null(<<>>), offset |-> Null(0), limit |-> Null(0)]

\* this.supportedFields_.includes(field)
isSupportedField_(this, field) ==
  \E i \in 1..Len(this.supportedFields_) : this.supportedFields_[i] = field

\* addField(field)
addField(this, field) ==
  IF isSupportedField_(this, field)
    THEN [this EXCEPT !.fields = Append(@, field)]
    ELSE this

RECURSIVE addFields(_, _)
\* addFields(fields): fields.forEach(field => self.addField(field))
addFields(this, fields) ==
  IF fields = <<>> THEN this ELSE addFields(addField(this, Head(fields)), Tail(fields))

\* addAllFields()
addAllFields(this) == addFields(this, this.supportedFields_)

\* addSearch(field, searchStr): pushes `${field}:${searchStr}`
addSearch(this, field, searchStr) ==
  IF isSupportedField_(this, field)
    THEN [this EXCEPT !.search = Append(@, field \o <<":">> \o searchStr)]
    ELSE this

RECURSIVE join(_, _)
\* Array.prototype.join
join(strs, separator) ==
  IF strs = <<>> THEN <<>>
  ELSE IF Len(strs) = 1 THEN strs[1]
  ELSE strs[1] \o separator \o join(Tail(strs), separator)

\* addSearchOr(field, searchStrs)
addSearchOr(this, field, searchStrs) == addSearch(this, field, join(searchStrs, <<"|">>))

\* sortBy(field, descending = true)
sortBy(this, field, descending) ==
  IF isSupportedField_(this, field)
    THEN [this EXCEPT !.sort =
            NotNull(field \o <<":">> \o
                    (IF descending THEN <<"d", "e", "s", "c">> ELSE <<"a", "s", "c">>))]
    ELSE this

\* setOffset(offset)
setOffset(this, offset) ==
  LET n == parseInt(offset) IN
    IF ~isNaN(n) /\ n.n >= 0 THEN [this EXCEPT !.offset = NotNull(n.n)] ELSE this

\* setLimit that takes 0 for a limit
setLimitFromZero(this, limit) ==
  LET n == parseInt(limit) IN
    IF ~isNaN(n) /\ n.n >= 0 THEN [this EXCEPT !.limit = NotNull(n.n)] ELSE this

\* setLimit(limit)
setLimit(this, limit) ==
  LET n == parseInt(limit) IN
    IF ~isNaN(n) /\ n.n > 0 THEN [this EXCEPT !.limit = NotNull(n.n)] ELSE this

\* the query after a builder call: the builder has changed it and returned it
Built(call, this) ==
  /\ query.constructed
  /\ query.calls < MaxQueryCalls
  /\ query' = [query EXCEPT !.this = this, !.calls = @ + 1, !.last = call,
                            !.returned = "this"]
  /\ UNCHANGED <<poller, request, app, auth, ttl, jobRequest, besidesQuery>>

NewBaseQuery ==
  /\ ~query.constructed
  /\ \E supportedFields \in SupportedFieldArrays :
       query' = [query EXCEPT !.constructed = TRUE, !.this = BaseQuery(supportedFields)]
  /\ UNCHANGED <<poller, request, app, auth, ttl, jobRequest, besidesQuery>>

CallAddField ==
  \E field \in FieldArgs :
    Built([NoBuilderCall EXCEPT !.op = "addField", !.fields = <<field>>],
          addField(query.this, field))

CallAddFields ==
  \E fields \in FieldsArgs :
    Built([NoBuilderCall EXCEPT !.op = "addFields", !.fields = fields],
          addFields(query.this, fields))

CallAddAllFields ==
  Built([NoBuilderCall EXCEPT !.op = "addAllFields",
                              !.fields = query.this.supportedFields_],
        addAllFields(query.this))

CallAddSearch ==
  \E field \in FieldArgs, searchStr \in SearchStrArgs :
    Built([NoBuilderCall EXCEPT !.op = "addSearch", !.fields = <<field>>,
                                !.text = searchStr],
          addSearch(query.this, field, searchStr))

CallAddSearchOr ==
  \E field \in FieldArgs, searchStrs \in SearchStrsArgs :
    Built([NoBuilderCall EXCEPT !.op = "addSearchOr", !.fields = <<field>>,
                                !.text = join(searchStrs, <<"|">>)],
          addSearchOr(query.this, field, searchStrs))

CallSortBy ==
  \E field \in FieldArgs, descending \in BOOLEAN :
    Built([NoBuilderCall EXCEPT !.op = "sortBy", !.fields = <<field>>,
                                !.descending = descending],
          sortBy(query.this, field, descending))

CallSetOffset ==
  \E offset \in NumberArgs :
    Built([NoBuilderCall EXCEPT !.op = "setOffset", !.text = offset],
          setOffset(query.this, offset))

CallSetLimit ==
  \E limit \in NumberArgs :
    Built([NoBuilderCall EXCEPT !.op = "setLimit", !.text = limit],
          setLimit(query.this, limit))

NextQuery ==
  \/ NewBaseQuery
  \/ CallAddField
  \/ CallAddFields
  \/ CallAddAllFields
  \/ CallAddSearch
  \/ CallAddSearchOr
  \/ CallSortBy
  \/ CallSetOffset
  \/ CallSetLimit

SpecQuery == Init /\ [][NextQuery]_vars

\* ------------------------------------------ RemoteDataPath instances

\* what is given for a data ID or a signed URL
PathArgs == {"undefined", "null", "", "d1", "d2"}

\* the JSON objects given to RemoteDataPath.fromObject
PathObjects == {v \in JsonValues : v.type \notin Primitives}

DATA_ID_FIELD == "data-id"
SIGNED_URL_FIELD == "signed-url"

\* RemoteDataPath.fromDataId(dataId)
fromDataId(lib, dataId) == RemoteDataPath(lib, dataId, "null")

\* RemoteDataPath.fromSignedUrl(signedUrl), of lib/jobs.js
fromSignedUrl(lib, signedUrl) == RemoteDataPath(lib, "null", signedUrl)

\* attributes_(): the property to serialize and the name it is written under
attributes_(lib, this) ==
  IF hasDataId(this) THEN Return({<<"dataId", DATA_ID_FIELD>>})
  ELSE IF lib = "lib" /\ hasSignedUrl(this) THEN Return({<<"signedUrl", SIGNED_URL_FIELD>>})
  ELSE Throw(RemoteDataPathError)

\* Serializable.toObject(): the members of the object, each with its value
toObject(lib, this) ==
  LET attrs == attributes_(lib, this) IN
    IF attrs.type = "throw" THEN attrs
    ELSE Return({<<a[2], this[a[1]]>> : a \in attrs.value})

\* a RemoteDataPath is made by op from dataId and signedUrl, with result
Constructed(lib, op, dataId, signedUrl, result) ==
  /\ path.op = "none"
  /\ path' = [path EXCEPT !.lib = lib, !.op = op, !.dataId = dataId,
                          !.signedUrl = signedUrl, !.result = result]
  /\ UNCHANGED <<poller, request, app, auth, ttl, jobRequest, besidesPath>>

\* new RemoteDataPath(dataId) and new RemoteDataPath(dataId, signedUrl)
NewRemoteDataPath(lib) ==
  \E dataId \in PathArgs, signedUrl \in PathArgs :
    /\ lib = "users" => signedUrl = "undefined"
    /\ Constructed(lib, "new", dataId, signedUrl, RemoteDataPath(lib, dataId, signedUrl))

CallFromDataId(lib) ==
  \E dataId \in PathArgs :
    Constructed(lib, "fromDataId", dataId, "undefined", fromDataId(lib, dataId))

CallFromSignedUrl ==
  \E signedUrl \in PathArgs :
    Constructed("lib", "fromSignedUrl", "undefined", signedUrl,
                fromSignedUrl("lib", signedUrl))

\* RemoteDataPath.fromObject(obj): a member that is absent reads as undefined
CallPathFromObject(lib) ==
  \E obj \in PathObjects :
    Constructed(lib, "fromObject",
                IF obj.dataId = "absent" THEN "undefined" ELSE obj.dataId,
                IF obj.signedUrl = "absent" THEN "undefined" ELSE obj.signedUrl,
                RemoteDataPath_fromObject(lib, obj))

\* path.toObject() on the instance constructed
CallToObject ==
  /\ path.result.type = "return"
  /\ ~path.serialized
  /\ LET o == toObject(path.lib, path.result.value) IN
       /\ o.type = "return"
       /\ path' = [path EXCEPT !.serialized = TRUE, !.object = o.value]
  /\ UNCHANGED <<poller, request, app, auth, ttl, jobRequest, besidesPath>>

NextPath ==
  \/ NewRemoteDataPath("users")
  \/ NewRemoteDataPath("lib")
  \/ CallFromDataId("users")
  \/ CallFromDataId("lib")
  \/ CallFromSignedUrl
  \/ CallPathFromObject("users")
  \/ CallPathFromObject("lib")
  \/ CallToObject

SpecPath == Init /\ [][NextPath]_vars

\* ------------------------------------------------------------- properties

\* what the condition made of the last completion of a session
LastResult(rec) == condition(rec.kind, rec.conditionArgs, rec.last)

\* what the condition made of the i-th logged completion of a session
LoggedResult(rec, i) == condition(rec.kind, rec.conditionArgs, rec.log[i])

Quiet(rec) == rec.inflight = {} /\ rec.timers = {}

\* C1: when the condition raises on any of its invocations, the promise of
\* waitForCondition is rejected with that very error: not with
\* APITimeoutError, and not left pending.
C1_ConditionErrorRejectsWait ==
  \A s \in Sessions :
    LET rec == sess[s] IN
      (rec.completed > 0 /\ LastResult(rec).type = "throw")
        => rec.outcome = Rejected(LastResult(rec).error)

\* C2: as soon as a status fetch of waitUntilJobCompletes reports FAILED, the
\* promise is rejected with JobExecutionError, and there is no further fetch
\* and no further sleep.
C2_FailedJobRejectsWait ==
  \A s \in Sessions :
    LET rec == sess[s] IN
      (rec.kind = "job" /\ rec.completed > 0 /\ rec.last = Return("FAILED"))
        => /\ JobWaitOutcome(variant, rec.outcome)
                = Rejected(JobExecutionError(rec.conditionArgs))
           /\ rec.evals = rec.completed
           /\ Quiet(rec)

\* C3: a wait session that is still pending has an evaluation in flight or a
\* timer pending, and a settled one has settled with a normal resolution,
\* APITimeoutError, or the error its condition raised (JobExecutionError or
\* the error of the fetch, for a job wait).
C3_NoSilentHang ==
  \A s \in Sessions :
    LET rec == sess[s] IN
      rec.called =>
        /\ rec.outcome.status = "pending" => ~Quiet(rec)
        /\ rec.outcome.status = "rejected" =>
             \/ rec.outcome.error = APITimeoutError
             \/ /\ rec.completed > 0
                /\ LastResult(rec) = Throw(rec.outcome.error)
        /\ rec.kind = "job" /\ rec.outcome.status = "rejected" =>
             rec.outcome.error \in
               {APITimeoutError, APIError, JobExecutionError(rec.conditionArgs)}

\* C4: when the first evaluation of the condition is truthy, waitForCondition
\* resolves with that value after exactly one evaluation and without having
\* set any timer, whatever sleepTime and maxWaitTime are.
C4_ImmediateSuccess ==
  \A s \in Sessions :
    LET rec == sess[s] IN
      (Len(rec.log) >= 1 /\ LoggedResult(rec, 1).type = "return"
         /\ LoggedResult(rec, 1).value \in TruthyValues)
        => /\ rec.outcome = Resolved(LoggedResult(rec, 1).value)
           /\ rec.evals = 1
           /\ rec.sleeps = 0
           /\ Quiet(rec)

\* C4 witness: a wait with no time budget at all that resolved on a first,
\* slow, truthy evaluation
C4_Witness ==
  \E s \in Sessions :
    /\ sess[s].kind = "cond" /\ sess[s].maxWaitTime = 0
    /\ sess[s].outcome = Resolved("v1")
    /\ sess[s].completed = 1 /\ sess[s].settledAt > sess[s].endTime

\* C5: when the condition is falsy on calls 1..k-1 and truthy on call k, with
\* k * sleepTime < maxWaitTime, waitForCondition resolves with the value of
\* call k, the condition has been evaluated exactly k times, with k-1 sleeps
\* in between and none after.
C5_EventualSuccess ==
  \A s \in Sessions :
    LET rec == sess[s] IN
      (/\ rec.completed > 0
       /\ LastResult(rec).type = "return"
       /\ LastResult(rec).value \in TruthyValues
       /\ \A i \in 1..Len(rec.log) :
            i < rec.completed => /\ LoggedResult(rec, i).type = "return"
                                 /\ LoggedResult(rec, i).value \in FalsyValues
       /\ rec.completed * rec.sleepTime < rec.maxWaitTime)
        => /\ rec.outcome = Resolved(LastResult(rec).value)
           /\ rec.evals = rec.completed
           /\ rec.sleeps = rec.completed - 1
           /\ Quiet(rec)

\* C5 witness: a wait resolved with the value of its second call
C5_Witness ==
  \E s \in Sessions :
    /\ sess[s].kind = "cond"
    /\ sess[s].completed = 2 /\ sess[s].evals = 2 /\ sess[s].sleeps = 1
    /\ 2 * sess[s].sleepTime < sess[s].maxWaitTime
    /\ sess[s].last = Return("v1")
    /\ sess[s].outcome = Resolved("v1")

\* a session that ended with the timeout of waitForCondition
TimedOut(rec) == rec.outcome = Rejected(APITimeoutError)

\* C6, as stated: waitForCondition(cond, [], 1, 3) on a condition that is
\* always falsy rejects with APITimeoutError after at least 3 and at most 4
\* evaluations.
C6_TimeoutAfterThreeOrFour ==
  \A s \in Sessions :
    LET rec == sess[s] IN
      (rec.kind = "cond" /\ rec.sleepTime = 1 /\ rec.maxWaitTime = 3 /\ TimedOut(rec))
        => rec.evals \in 3..4

\* C6, amended: a wait that times out has evaluated its condition at least
\* once and at most maxWaitTime \div sleepTime + 2 times (5 times for
\* sleepTime 1 and maxWaitTime 3), and exactly that often when every
\* evaluation takes no time and every timer fires on time.
C6_TimeoutEvaluations ==
  \A s \in Sessions :
    LET rec == sess[s] IN
      TimedOut(rec) =>
        /\ rec.evals >= 1
        /\ rec.evals <= (rec.maxWaitTime \div rec.sleepTime) + 2
        /\ rec.jitter = 0 => rec.evals = (rec.maxWaitTime \div rec.sleepTime) + 2
        /\ rec.evals = rec.completed

\* C6 witness: waitForCondition(cond, [], 1, 3) timed out after 5 evaluations
C6_Witness ==
  \E s \in Sessions :
    /\ sess[s].kind = "cond" /\ sess[s].sleepTime = 1 /\ sess[s].maxWaitTime = 3
    /\ TimedOut(sess[s]) /\ sess[s].evals = 5 /\ sess[s].jitter = 0

\* the job states the first fetches of a session returned
FetchedStates(rec) == [i \in 1..Len(rec.log) |-> rec.log[i].value]

\* C7: waitUntilJobCompletes polled at interval 1 with maxWait 10 on a job
\* fetched as QUEUED, QUEUED, RUNNING, COMPLETE resolves after exactly 4
\* fetches; in general, when a fetch returns COMPLETE the wait resolves, and
\* the fetches issued are exactly those up to that one.
C7_JobSuccess ==
  \A s \in Sessions :
    LET rec == sess[s] IN
      rec.kind = "job" =>
        /\ (/\ rec.sleepTime = 1 * MsPerSecond /\ rec.maxWaitTime = 10 * MsPerSecond
            /\ Len(rec.log) = 4
            /\ \A i \in 1..4 : rec.log[i].type = "return"
            /\ FetchedStates(rec) = <<"QUEUED", "QUEUED", "RUNNING", "COMPLETE">>)
             => /\ JobWaitOutcome(variant, rec.outcome).status = "resolved"
                /\ rec.evals = 4
                /\ Quiet(rec)
        /\ (rec.completed > 0 /\ rec.last = Return("COMPLETE"))
             => /\ JobWaitOutcome(variant, rec.outcome).status = "resolved"
                /\ rec.evals = rec.completed
                /\ rec.sleeps = rec.completed - 1
                /\ Quiet(rec)

\* C7 witness: the wait of the example, resolved after its fourth fetch
C7_Witness ==
  \E s \in Sessions :
    /\ sess[s].kind = "job"
    /\ sess[s].sleepTime = 1 * MsPerSecond /\ sess[s].maxWaitTime = 10 * MsPerSecond
    /\ Len(sess[s].log) = 4
    /\ \A i \in 1..4 : sess[s].log[i].type = "return"
    /\ FetchedStates(sess[s]) = <<"QUEUED", "QUEUED", "RUNNING", "COMPLETE">>
    /\ sess[s].outcome.status = "resolved"
    /\ sess[s].evals = 4

\* C8: within one wait session at most one evaluation of the condition is in
\* flight at any moment.
C8_SequentialEvaluations ==
  \A s \in Sessions : Cardinality(sess[s].inflight) <= 1

\* C8 witness: a later evaluation in flight, the ones before it completed
C8_Witness ==
  \E s \in Sessions :
    /\ sess[s].evals >= 3 /\ sess[s].completed = sess[s].evals - 1
    /\ \E e \in sess[s].inflight : e.at > now

\* the records a job session of SpecConcurrent may move to on its own, from
\* its record rec at time t
AloneSteps(s, rec, t) ==
  IF rec.called
    THEN AfterCompletion(variant, rec, t, 0) \cup AfterTimer(rec, t)
    ELSE StartsOfWaitUntilJobCompletes({JobOf(s)}, ConcurrentWaitConfigs, t)

\* C9: two concurrent waitUntilJobCompletes sessions on different jobs are
\* independent: a step that changes one session is a step that session could
\* take on its own, it leaves the other session as it is, and the deadline
\* of a session never changes.
C9_IndependentSessions ==
  [][\A s \in Sessions :
       /\ sess'[s] # sess[s] =>
            /\ sess'[s] \in AloneSteps(s, sess[s], now)
            /\ \A x \in Sessions \ {s} : sess'[x] = sess[x]
       /\ sess[s].called => sess'[s].endTime = sess[s].endTime]_vars

\* C9 witness: two waits that overlapped in time, one resolved after several
\* fetches and the other rejected for its failed job
C9_Witness ==
  /\ sess[1].outcome.status = "resolved" /\ sess[1].evals >= 2
  /\ sess[2].outcome = Rejected(JobExecutionError("j2")) /\ sess[2].evals >= 2
  /\ sess[2].startTime < sess[1].settledAt
  /\ sess[1].startTime < sess[2].settledAt
  /\ sess[1].endTime # sess[2].endTime

\* a session whose condition has never been truthy and has never raised
NeverTruthyNorRaised(rec) ==
  /\ rec.called /\ rec.unhandled = 0
  /\ rec.outcome.status = "pending" \/ TimedOut(rec)

\* the time at which a session is over, or the present for one that is not
EndOrNow(rec) == IF rec.outcome.status = "pending" THEN now ELSE rec.settledAt

\* C10, as stated: a wait whose condition is never truthy and never raises
\* is rejected with APITimeoutError no later than maxWaitTime + sleepTime + d
\* after its start, d the longest an evaluation takes.
C10_OverrunOneEvaluationOneInterval ==
  \A s \in Sessions :
    LET rec == sess[s] IN
      NeverTruthyNorRaised(rec) =>
        EndOrNow(rec) <= rec.startTime + rec.maxWaitTime + rec.sleepTime + MaxDur

\* C10, amended: ... no later than maxWaitTime + sleepTime + d + l after its
\* start, l the longest a timer fires after its delay has elapsed.
C10_OverrunBounded ==
  \A s \in Sessions :
    LET rec == sess[s] IN
      NeverTruthyNorRaised(rec) =>
        EndOrNow(rec) <= rec.startTime + rec.maxWaitTime + rec.sleepTime + MaxDur + MaxLate

\* C10 witness: a wait timed out at the very end of the bound
C10_Witness ==
  \E s \in Sessions :
    /\ TimedOut(sess[s]) /\ sess[s].maxWaitTime > 0
    /\ sess[s].settledAt
         = sess[s].startTime + sess[s].maxWaitTime + sess[s].sleepTime + MaxDur + MaxLate

\* C11: when the job reaches COMPLETE, waitUntilJobCompletes resolves with no
\* payload (undefined): its caller does not see the truthy result of the
\* condition.
C11_JobWaitResolvesWithNoPayload ==
  \A s \in Sessions :
    LET rec == sess[s] IN
      (rec.kind = "job" /\ rec.completed > 0 /\ rec.last = Return("COMPLETE"))
        => JobWaitOutcome(variant, rec.outcome) = Resolved("undefined")

\* the job states a fetch may return: the six of JobState, or none
FetchedJobStates == JobState \cup {"undefined"}

\* C12: isJobComplete raises JobExecutionError exactly for the state FAILED,
\* returns true exactly for COMPLETE and false for every other state; a wait
\* never resolves on a FAILED job and never sleeps on to poll it again.
C12_JobStateClassification ==
  \A s \in Sessions :
    LET rec == sess[s]
        st == rec.last.value
        r == isJobComplete(rec.conditionArgs, rec.last)
    IN (rec.kind = "job" /\ rec.completed > 0 /\ rec.last.type = "return") =>
         /\ st \in FetchedJobStates
         /\ (r.type = "throw") <=> (st = "FAILED")
         /\ st = "FAILED" => r = Throw(JobExecutionError(rec.conditionArgs))
         /\ (r = Return("true")) <=> (st = "COMPLETE")
         /\ st \in {"READY", "QUEUED", "SCHEDULED", "RUNNING"} => r = Return("false")
         /\ st = "FAILED" => /\ rec.outcome.status # "resolved"
                             /\ rec.timers = {}
                             /\ rec.sleeps = rec.completed - 1
         /\ st = "COMPLETE" => rec.outcome.status = "resolved"

\* C12 witness: a wait whose later fetch returned FAILED, after a fetch that
\* returned a state still pending
C12_Witness ==
  \E s \in Sessions :
    /\ sess[s].kind = "job" /\ sess[s].completed = 2
    /\ sess[s].log[1] = Return("SCHEDULED")
    /\ sess[s].last = Return("FAILED")
    /\ sess[s].timers = {}

\* C13: when a status fetch of waitUntilJobCompletes fails with an APIError,
\* the wait is rejected with that error and issues no further fetch, also
\* when time is left.
C13_FetchErrorRejectsWait ==
  \A s \in Sessions :
    LET rec == sess[s] IN
      (rec.kind = "job" /\ rec.completed > 0 /\ rec.last = Throw(APIError))
        => /\ JobWaitOutcome(variant, rec.outcome) = Rejected(APIError)
           /\ rec.evals = rec.completed
           /\ Quiet(rec)

\* C19: every wait session evaluates its condition at least once, and its
\* first evaluation is invoked before any timer is set, whatever sleepTime
\* and maxWaitTime are (maxWaitTime 0 or below sleepTime included).
C19_EvaluatesBeforeSleeping ==
  \A s \in Sessions :
    LET rec == sess[s] IN
      rec.called =>
        /\ rec.evals >= 1
        /\ rec.sleeps <= rec.completed
        /\ rec.completed = 0 => rec.timers = {} /\ rec.inflight # {}

\* C19 witness: a wait with less time than one sleep that has evaluated its
\* condition and gone to sleep
C19_Witness ==
  \E s \in Sessions :
    /\ sess[s].called /\ sess[s].maxWaitTime < sess[s].sleepTime
    /\ sess[s].completed = 1 /\ sess[s].sleeps = 1 /\ sess[s].timers # {}

\* C20: a wait session that has settled (truthy condition, deadline exceeded
\* or condition raised) has no evaluation in flight and no timer pending, and
\* has made no evaluation beyond the one that settled it.
C20_SettledIsQuiet ==
  \A s \in Sessions :
    LET rec == sess[s] IN
      rec.outcome.status # "pending" =>
        /\ Quiet(rec)
        /\ rec.evals = rec.completed
        /\ rec.sleeps = rec.completed - 1

\* C20 witness: a wait that timed out after sleeping, left quiet
C20_Witness ==
  \E s \in Sessions :
    /\ TimedOut(sess[s]) /\ sess[s].sleeps >= 2
    /\ Quiet(sess[s])

\* C14: the promise of a request helper (get, post, put, delete) whose
\* response has a status code above 299 is rejected with an error (not resolved
\* with the body, not left pending), one whose request met a transport error
\* is rejected with that error, and every answered request has settled once.
C14_RequestSettlesOnce ==
  request.phase = "answered" =>
    /\ request.answer.err # NoError => request.promise = Rejected(request.answer.err)
    /\ (request.answer.err = NoError /\ request.answer.statusCode > 299)
         => request.promise.status = "rejected"
    /\ request.settles = 1

\* C15: after any sequence of withUser(u) and exitUser() calls on an
\* ApplicationAPI, its header carries the application-user field with the
\* username of the last withUser when no exitUser followed it, and no such
\* field initially and after exitUser; activeUser agrees with the header.
C15_HeaderFollowsActiveUser ==
  app.constructed =>
    LET n == Len(app.calls) IN
      /\ app.header_.key = app.token.privateKey
      /\ (n > 0 /\ app.calls[n].op = "withUser") =>
           /\ app.header_.user = app.calls[n].username
           /\ app.activeUser = app.calls[n].username
      /\ (n = 0 \/ app.calls[n].op = "exitUser") =>
           /\ app.header_.user = "absent"
           /\ app.activeUser = "null"

\* the sources of a token, highest priority first
SourceRank(s) ==
  CASE s = "tokenPath"  -> 1
    [] s = "privateKey" -> 2
    [] s = "tokenEnv"   -> 3
    [] s = "home"       -> 4

Sources == {"tokenPath", "privateKey", "tokenEnv", "home"}

\* the sources that are there in the surroundings of a call
PresentSources(a) ==
  {s \in Sources :
     \/ s = "tokenPath" /\ a.tokenPath \notin {"null", ""}
     \/ s = "privateKey" /\ a.privateKey \notin {"undefined", ""}
     \/ s = "tokenEnv" /\ a.tokenEnv \notin {"undefined", ""}
     \/ s = "home" /\ a.home # "missing"}

\* what a source holds: the path of a file, or the key itself
HeldBy(a, s) ==
  CASE s = "tokenPath"  -> a.tokenPath
    [] s = "privateKey" -> a.privateKey
    [] s = "tokenEnv"   -> a.tokenEnv
    [] s = "home"       -> "home"

\* whether the file a source names holds a token
ValidSource(a, s) ==
  \/ s = "privateKey"
  \/ s = "tokenPath" /\ a.tokenPath = "arg-valid"
  \/ s = "tokenEnv" /\ a.tokenEnv = "env-valid"
  \/ s = "home" /\ a.home = "valid"

C17_ExactlyOneOfDaysAndDate ==
  ttl.phase = "done" =>
    IF ttl.days.given # ttl.expirationDate.given
      THEN /\ Len(ttl.sent) = 1
           /\ ttl.sent[1].data =
                [days |-> IF ttl.days.given THEN ToString(ttl.days.n) ELSE "absent",
                 expiration_date |-> IF ttl.expirationDate.given
                                       THEN ttl.expirationDate.text ELSE "absent"]
           /\ ttl.result # Throw(TTLArgumentError)
      ELSE /\ ttl.sent = <<>>
           /\ ttl.result = Throw(TTLArgumentError)

\* a JSON object that holds a remote data path: a data-id that is not null
\* or, in lib/jobs.js, no data-id and a signed-url that is not null
ValidRemotePathObject(lib, val) ==
  /\ val.type = "object"
  /\ \/ val.dataId \notin {"absent", "null"}
     \/ lib = "lib" /\ val.dataId = "absent" /\ val.signedUrl \notin {"absent", "null"}

\* C18: RemoteDataPath.isRemotePathObject(val) returns true for a valid
\* RemoteDataPath JSON object and false for every other value, and never
\* raises; so JobRequest.fromObject accepts every parameter value, and stores
\* as a non-data parameter each that is not a remote data path.
C18_IsRemotePathObjectTotal ==
  jobRequest.phase = "done" =>
    /\ \A i \in DOMAIN jobRequest.parameters :
         jobRequest.remote[i] =
           Return(IF ValidRemotePathObject(jobRequest.lib, jobRequest.parameters[i])
                    THEN "true" ELSE "false")
    /\ jobRequest.result.type = "return"
    /\ \A i \in DOMAIN jobRequest.parameters :
         LET val == jobRequest.parameters[i] IN
           ~ValidRemotePathObject(jobRequest.lib, val)
             => jobRequest.result.value[i] = [kind |-> "value", val |-> val]

\* C21: a wait session has at most one timer pending at any moment, and no
\* timer pending while one of its evaluations is in flight: every timer set
\* is set after a completed evaluation and is gone before the next one is set.
C21_AtMostOneTimer ==
  \A s \in Sessions :
    LET rec == sess[s] IN
      /\ Cardinality(rec.timers) <= 1
      /\ rec.timers # {} => rec.inflight = {}
      /\ rec.timers # {} => rec.sleeps = rec.completed /\ rec.evals = rec.completed
      /\ rec.timers = {} => rec.sleeps <= rec.evals

\* C21 witness: a session asleep for the third time, one timer pending
C21_Witness ==
  \E s \in Sessions :
    /\ sess[s].sleeps = 3 /\ Cardinality(sess[s].timers) = 1
    /\ sess[s].inflight = {}

\* the header an ApplicationAPI holds after the first n of its calls
HeaderAfter(api, n) ==
  getHeader(api.token,
            IF n > 0 /\ api.calls[n].op = "withUser" THEN api.calls[n].username ELSE "null")

C23_DeadlineAndArgumentsFixed ==
  [][\A s \in Sessions :
       /\ (~sess[s].called /\ sess'[s].called) =>
            /\ sess'[s].startTime = now
            /\ sess'[s].endTime = now + sess'[s].maxWaitTime
            /\ sess'[s].evals = 1 /\ sess'[s].completed = 0
       /\ sess[s].called =>
            /\ sess'[s].endTime = sess[s].endTime
            /\ sess[s].endTime = sess[s].startTime + sess[s].maxWaitTime
            /\ sess'[s].startTime = sess[s].startTime
            /\ sess'[s].conditionArgs = sess[s].conditionArgs
            /\ sess'[s].kind = sess[s].kind
            /\ sess'[s].sleepTime = sess[s].sleepTime
            /\ sess'[s].maxWaitTime = sess[s].maxWaitTime]_vars

\* C23 witness: a job wait in its third evaluation, past its deadline, the
\* deadline still the start time plus maxWaitTime
C23_Witness ==
  \E s \in Sessions :
    /\ sess[s].kind = "job" /\ sess[s].conditionArgs = "j1"
    /\ sess[s].evals >= 3 /\ sess[s].maxWaitTime > 0
    /\ now > sess[s].endTime
    /\ sess[s].endTime = sess[s].startTime + sess[s].maxWaitTime

\* C24: waitUntilJobCompletes hands the caller's sleepTime and maxWaitTime,
\* 5 and 600 seconds when left out, to waitForCondition both multiplied by
\* 1000: the ratio of the two is the caller's, and the defaults make 120
\* sleeps fit into the wait.
C24_TimesScaledAlike ==
  apiCall.op = "waitUntilJobCompletes" =>
    LET sleepTime == IF apiCall.sleepTime.given THEN apiCall.sleepTime.n ELSE 5
        maxWaitTime == IF apiCall.maxWaitTime.given THEN apiCall.maxWaitTime.n ELSE 600
        d == apiCall.delegated
    IN /\ d.conditionArgs = apiCall.jobId
       /\ d.sleepTime = 1000 * sleepTime
       /\ d.maxWaitTime = 1000 * maxWaitTime
       /\ d.sleepTime * maxWaitTime = d.maxWaitTime * sleepTime
       /\ (~apiCall.sleepTime.given /\ ~apiCall.maxWaitTime.given)
            => d.maxWaitTime = 120 * d.sleepTime

\* C24 witness: a call with both times left out
C24_Witness ==
  /\ apiCall.op = "waitUntilJobCompletes"
  /\ ~apiCall.sleepTime.given /\ ~apiCall.maxWaitTime.given
  /\ apiCall.delegated.sleepTime = 5000 /\ apiCall.delegated.maxWaitTime = 600000

\* the failure attribution an error carries
AttributionOf(error) ==
  IF "failureType" \in DOMAIN error THEN error.failureType ELSE "absent"

\* C25: a JobExecutionError raised by isJobComplete carries the identifier of
\* the job whose state was FAILED, and its failure attribution (USER,
\* ANALYTIC or PLATFORM) when the job record has one, whether isJobComplete
\* was called with a jobId or with a job metadata object.
C25_ErrorIdentifiesJob ==
  (apiCall.op = "isJobComplete" /\ apiCall.result.type = "throw"
     /\ apiCall.result.error.name = "JobExecutionError") =>
    LET failed == IF apiCall.fetchedJob.type = "return"
                    THEN apiCall.fetchedJob.value ELSE apiCall.job
    IN /\ failed.state = "FAILED"
       /\ apiCall.result.error.message = failed.id
       /\ failed.failure_type \in {"USER", "ANALYTIC", "PLATFORM"}
            => AttributionOf(apiCall.result.error) = failed.failure_type

\* the evaluation of a session whose completion the step is
Completes(s) == sess'[s].completed = sess[s].completed + 1

\* C26: the timeout is decided only after a falsy evaluation. An evaluation
\* that completes truthy resolves the wait, also after the deadline; one that
\* completes falsy rejects it with APITimeoutError when the clock is strictly
\* past the deadline, and otherwise (the deadline itself included) leaves it
\* pending with one more timer set; and a wait that timed out did so on a
\* falsy evaluation that completed strictly after its deadline.
C26_TimeoutOnlyAfterFalsy ==
  /\ [](\A s \in Sessions :
          LET rec == sess[s] IN
            TimedOut(rec) =>
              /\ LastResult(rec).type = "return"
              /\ ~Truthy(LastResult(rec).value)
              /\ rec.settledAt > rec.endTime)
  /\ [][\A s \in Sessions :
         LET r == LastResult(sess'[s]) IN
           (Completes(s) /\ r.type = "return") =>
             /\ Truthy(r.value) =>
                  /\ sess'[s].outcome.status = "resolved"
                  /\ sess'[s].settledAt = now
             /\ (~Truthy(r.value) /\ now > sess[s].endTime) =>
                  /\ TimedOut(sess'[s])
                  /\ sess'[s].settledAt = now
             /\ (~Truthy(r.value) /\ now <= sess[s].endTime) =>
                  /\ sess'[s].outcome.status = "pending"
                  /\ sess'[s].sleeps = sess[s].sleeps + 1
                  /\ Cardinality(sess'[s].timers) = 1]_vars

\* C26 witness: waitForCondition(cond, [], 1, 1), every evaluation immediate
\* and every timer on time: the second evaluation was falsy at the deadline
\* itself, the wait slept once more, and the third, truthy after the
\* deadline, resolved it
C26_Witness ==
  \E s \in Sessions :
    LET rec == sess[s] IN
      /\ rec.kind = "cond" /\ rec.sleepTime = 1 /\ rec.maxWaitTime = 1
      /\ rec.jitter = 0
      /\ rec.evals = 3 /\ rec.completed = 3 /\ rec.sleeps = 2
      /\ ~Truthy(LoggedResult(rec, 2).value) /\ LoggedResult(rec, 2).type = "return"
      /\ rec.outcome.status = "resolved"
      /\ rec.settledAt = rec.endTime + 1

\* a fetch that returned a job whose state is none of JobState
UnknownState(raw) == raw.type = "return" /\ raw.value \notin JobState

\* C27: a fetched job state that is none of the six of JobState is treated
\* as pending. isJobComplete returns false on it and does not raise; the wait
\* then sleeps on when the deadline has not passed and times out when it has;
\* and a wait that has fetched such a state and is over ended with
\* APITimeoutError, or on a later fetch that returned COMPLETE or FAILED or
\* that failed.
C27_UnknownStateIsPending ==
  /\ [](\A s \in Sessions :
          LET rec == sess[s] IN
            (/\ rec.kind = "job"
             /\ \E i \in 1..Len(rec.log) : UnknownState(rec.log[i])
             /\ rec.outcome.status # "pending") =>
               /\ \/ TimedOut(rec)
                  \/ rec.last = Return("COMPLETE") /\ rec.outcome.status = "resolved"
                  \/ /\ rec.last = Return("FAILED")
                     /\ rec.outcome = Rejected(JobExecutionError(rec.conditionArgs))
                  \/ rec.last = Throw(APIError) /\ rec.outcome = Rejected(APIError)
               /\ UnknownState(rec.last) => TimedOut(rec))
  /\ [][\A s \in Sessions :
         (Completes(s) /\ sess[s].kind = "job" /\ UnknownState(sess'[s].last)) =>
           /\ LastResult(sess'[s]) = Return("false")
           /\ sess'[s].unhandled = sess[s].unhandled
           /\ now <= sess[s].endTime =>
                /\ sess'[s].outcome.status = "pending"
                /\ sess'[s].sleeps = sess[s].sleeps + 1
                /\ Cardinality(sess'[s].timers) = 1
           /\ now > sess[s].endTime => TimedOut(sess'[s])]_vars

\* C27 witness: a wait whose fetches all returned a job without a state,
\* which slept between them and ended with APITimeoutError
C27_Witness ==
  \E s \in Sessions :
    LET rec == sess[s] IN
      /\ rec.kind = "job" /\ rec.completed >= 2 /\ rec.sleeps >= 1
      /\ \A i \in 1..Len(rec.log) : rec.log[i] = Return("undefined")
      /\ rec.last = Return("undefined")
      /\ TimedOut(rec)

RECURSIVE FieldOf(_)
\* the field of an entry `${field}:${rest}`: what stands before its first colon
FieldOf(entry) ==
  IF entry = <<>> \/ Head(entry) = ":" THEN <<>> ELSE <<Head(entry)>> \o FieldOf(Tail(entry))

\* a builder call that names no supported field, or an offset or limit that
\* starts with no integer or with one out of range
Refused(this, call) ==
  \/ /\ call.op \in {"addField", "addFields", "addSearch", "addSearchOr", "sortBy"}
     /\ \A i \in 1..Len(call.fields) : ~isSupportedField_(this, call.fields[i])
  \/ call.op = "setOffset" /\ (isNaN(parseInt(call.text)) \/ parseInt(call.text).n < 0)
  \/ call.op = "setLimit" /\ (isNaN(parseInt(call.text)) \/ parseInt(call.text).n <= 0)

GivenDataId(p) == IF p.op = "fromSignedUrl" THEN "null" ELSE DefaultNull(p.dataId)
GivenSignedUrl(p) ==
  IF p.lib = "users" \/ p.op = "fromDataId" THEN "null" ELSE DefaultNull(p.signedUrl)

\* C29: every RemoteDataPath that exists is valid. A construction, by new, by
\* fromDataId, by fromSignedUrl or by fromObject, that is given no data ID
\* other than null and, in the module with signed URLs, no signed URL other
\* than null raises RemoteDataPathError; an instance that was constructed
\* has a data ID or a signed URL; and its toObject has exactly one member,
\* data-id or signed-url, which is not null.
C29_InstancesAreValid ==
  /\ (path.op # "none" /\ GivenDataId(path) = "null" /\ GivenSignedUrl(path) = "null")
       => path.result = Throw(RemoteDataPathError)
  /\ (path.op # "none" /\ path.result.type = "return") =>
       LET this == path.result.value IN
         /\ this.dataId # "null" \/ (path.lib = "lib" /\ this.signedUrl # "null")
         /\ toObject(path.lib, this).type = "return"
  /\ path.serialized =>
       /\ Cardinality(path.object) = 1
       /\ \A m \in path.object :
            /\ m[1] \in {DATA_ID_FIELD, SIGNED_URL_FIELD}
            /\ m[2] # "null"

\* C29 witness: new RemoteDataPath('d1', 'd2') of lib/jobs.js, serialized: it
\* has both a data ID and a signed URL, and its object has the data ID only
C29_Witness ==
  /\ path.lib = "lib" /\ path.op = "new"
  /\ path.dataId = "d1" /\ path.signedUrl = "d2"
  /\ path.serialized
  /\ path.object = {<<DATA_ID_FIELD, "d1">>}

====
